---- MODULE Spec2Model ----
(***************************************************************************)
(* Model of generate_eld_logs (trips/utils.py): the synthesis of the      *)
(* day-by-day duty log of a trip from the route's distance and the        *)
(* driver's used cycle hours.                                              *)
(*                                                                         *)
(* Numbers.  The code computes with floats; the model computes with exact *)
(* fixed-point integers.  A time is a number of ticks, HOUR ticks to the  *)
(* hour, and a distance a number of milli-miles, MILE to the mile.  At    *)
(* 60 mph one tick of driving is exactly one milli-mile, so miles / 60    *)
(* and hours * 60 are exact.  round(x, 1) rounds the exact value to the   *)
(* nearest tenth; on an exact tie (x.x5) the float the code holds is      *)
(* never the tie itself, so the code rounds up for some values and down   *)
(* for others (round(0.05, 1) = 0.1, round(0.15, 1) = 0.1): a tie is      *)
(* resolved by the flag `up`, which the loop step draws from BOOLEAN.     *)
(***************************************************************************)
EXTENDS Integers, Sequences, FiniteSets, TLC

VARIABLES
    has_distance,      \* "distance_miles" is a key of route_data
    has_duration,      \* "duration_hours" is a key of route_data
    distance_miles,    \* route_data["distance_miles"], milli-miles
    cycle_hours_used,  \* the second argument, ticks
    pc,                \* "start", "loop", "returned", "failed"
    logs,              \* the local list of day-logs
    remaining_hours,   \* ticks
    remaining_miles,   \* milli-miles
    current_day,       \* zero-based day counter
    result,            \* the returned list (<<>> until a return)
    error              \* the message of the raised ValueError, "none" if none

vars == <<has_distance, has_duration, distance_miles, cycle_hours_used, pc,
          logs, remaining_hours, remaining_miles, current_day, result, error>>

inputs == <<has_distance, has_duration, distance_miles, cycle_hours_used>>

-----------------------------------------------------------------------------
(* Units *)

MILE == 10 * 100                \* milli-miles in a mile
MPH == 60
HOUR == MPH * MILE              \* ticks in an hour: one tick drives one milli-mile
TicksPerMilliMile == HOUR \div (MPH * MILE)

Min(a, b) == IF a < b THEN a ELSE b
Max(a, b) == IF a > b THEN a ELSE b

(* Program constants *)
CycleLimit == 70 * HOUR          \* 70-hour cycle
MaxIterations == 100
Tolerance == MILE \div 100       \* 0.01 mile
DayStart == 8 * HOUR             \* 08:00
DrivingCap == 11 * HOUR
MinDriving == HOUR \div 10       \* the 0.1-hour floor
PickupHours == HOUR
DropoffHours == HOUR
BreakHours == HOUR \div 2
FuelHours == HOUR \div 4
BreakAfter == 8 * HOUR
FuelEvery == 1000 * MILE

-----------------------------------------------------------------------------
(* round(x, 1) and the 60 mph conversions *)

\* x rounded to the nearest multiple of g; an exact tie goes up iff `up`
RoundTo(x, g, up) ==
    LET q == x \div g
        r == x % g
    IN  IF 2 * r < g THEN q * g
        ELSE IF 2 * r > g THEN (q + 1) * g
        ELSE IF up THEN (q + 1) * g ELSE q * g

\* round(x, 1) of a number of hours
RoundHours(x, up) == RoundTo(x, HOUR \div 10, up)

\* round(x, 1) of a number of miles
RoundMiles(x, up) == RoundTo(x, MILE \div 10, up)

\* remaining_miles / 60
HoursAt60(miles) == miles * TicksPerMilliMile

\* daily_driving_hours * 60
MilesAt60(hours) == hours \div TicksPerMilliMile

Min3(a, b, c) == Min(a, Min(b, c))

-----------------------------------------------------------------------------
(* One iteration of the per-day loop, step by step.  A day in progress is *)
(* a record [activities, current_time, on_duty_hours].                    *)

Activity(type, start, end) == [type |-> type, start |-> start, end |-> end]

DrivingActivity(start, end, miles) ==
    [type |-> "driving", start |-> start, end |-> end, miles |-> miles]

NewDay == [activities |-> <<>>, current_time |-> DayStart, on_duty_hours |-> 0]

\* Appends an activity of the given length and advances clock and accumulator
AddActivity(d, type, len) ==
    [activities |-> Append(d.activities,
                           Activity(type, d.current_time, d.current_time + len)),
     current_time |-> d.current_time + len,
     on_duty_hours |-> d.on_duty_hours + len]

\* Mutant: the pickup is appended and counted but the clock is not advanced
PickupStepNoClock(d, cd) ==
    IF cd = 0
    THEN [activities |-> Append(d.activities,
                 Activity("pickup", d.current_time, d.current_time + PickupHours)),
          current_time |-> d.current_time,
          on_duty_hours |-> d.on_duty_hours + PickupHours]
    ELSE d

\* Pickup (1 hour on day 1)
PickupStep(d, cd) ==
    IF cd = 0 THEN AddActivity(d, "pickup", PickupHours) ELSE d

\* Mutant: the cap is the 14-hour duty window instead of the 11 driving hours
DailyDrivingHoursCap14(rh, od, rm, up) ==
    IF rm > 0
    THEN Max(RoundHours(Min3(14 * HOUR, rh - od, HoursAt60(rm)), up), MinDriving)
    ELSE 0

\* Mutant: the 0.1-hour floor is left out
DailyDrivingHoursNoFloor(rh, od, rm, up) ==
    IF rm > 0
    THEN RoundHours(Min3(DrivingCap, rh - od, HoursAt60(rm)), up)
    ELSE 0

\* min(11, remaining_hours - on_duty_hours, remaining_miles / 60), rounded to
\* one decimal and floored at 0.1 while miles remain
DailyDrivingHours(rh, od, rm, up) ==
    IF rm > 0
    THEN Max(RoundHours(Min3(DrivingCap, rh - od, HoursAt60(rm)), up), MinDriving)
    ELSE 0

\* daily_miles = round(daily_driving_hours * 60, 1)
DailyMiles(h, up) == RoundMiles(MilesAt60(h), up)

\* Mutant: the terminal-day clamp of the miles is left out
ClampMilesNone(m, rm) == m

\* The terminal-day clamp: daily_miles after "if daily_miles > remaining_miles"
ClampMiles(m, rm) == IF m > rm THEN rm ELSE m

\* daily_driving_hours after the same test: daily_miles / 60, not rounded
ClampHours(h, m, rm) == IF m > rm THEN HoursAt60(rm) ELSE h

\* Driving period
DrivingStep(d, h, m) ==
    IF h > 0
    THEN [activities |-> Append(d.activities,
                 DrivingActivity(d.current_time, d.current_time + h, m)),
          current_time |-> d.current_time + h,
          on_duty_hours |-> d.on_duty_hours + h]
    ELSE d

\* Break (0.5 hours if driving > 8 hours and the budget allows)
BreakStep(d, h, rh) ==
    IF h > BreakAfter /\ rh - d.on_duty_hours >= BreakHours
    THEN AddActivity(d, "break", BreakHours)
    ELSE d

\* for _ in range(n): a fuel stop where the budget allows 0.25 hour
RECURSIVE FuelLoop(_, _, _)
FuelLoop(d, n, rh) ==
    IF n <= 0 THEN d
    ELSE FuelLoop(IF rh - d.on_duty_hours >= FuelHours
                  THEN AddActivity(d, "fuel", FuelHours) ELSE d,
                  n - 1, rh)

\* Fuel stops: int(daily_miles / 1000) of them, only if driving occurred
FuelStep(d, m, rh) ==
    IF m > 0 THEN FuelLoop(d, m \div FuelEvery, rh) ELSE d

\* The dropoff test: the day finishes the distance and one hour is left
DropoffDue(rm, m, rh, od) ==
    rm - m <= Tolerance /\ rh - od >= DropoffHours

\* Dropoff (1 hour on the last day)
DropoffStep(d, due) ==
    IF due THEN AddActivity(d, "dropoff", DropoffHours) ELSE d

\* The body of the loop up to the dropoff: the day's activities, its on-duty
\* hours, its miles and whether it dropped off
DayPlan(rh, rm, cd, up) ==
    LET d1 == PickupStep(NewDay, cd)
        h0 == DailyDrivingHours(rh, d1.on_duty_hours, rm, up)
        m0 == DailyMiles(h0, up)
        daily_miles == ClampMiles(m0, rm)
        daily_driving_hours == ClampHours(h0, m0, rm)
        d2 == DrivingStep(d1, daily_driving_hours, daily_miles)
        d3 == BreakStep(d2, daily_driving_hours, rh)
        d4 == FuelStep(d3, daily_miles, rh)
        due == DropoffDue(rm, daily_miles, rh, d4.on_duty_hours)
        d5 == DropoffStep(d4, due)
    IN  [activities |-> d5.activities,
         on_duty_hours |-> d5.on_duty_hours,
         daily_miles |-> daily_miles,
         dropoff |-> due]

\* Mutant: the days are renumbered from 0
RenumberFromZero(ls) ==
    [i \in 1..Len(ls) |-> [day |-> i - 1, activities |-> ls[i].activities]]

\* Renumber days: log["day"] = i + 1 for the i-th log, i from 0
Renumber(ls) ==
    [i \in 1..Len(ls) |-> [day |-> i, activities |-> ls[i].activities]]

-----------------------------------------------------------------------------
(* The inputs the model draws *)

MaxDistSteps == 24
MaxCycleSteps == 8

DistStep == 3 * MILE + 5          \* 3.005 miles
CycleStep == HOUR \div 4          \* a quarter of an hour

\* Distances: the spec's scenarios (50, 700, 5000 miles), distances at and
\* around the tolerance, rounding ties (3, 9 miles), a distance of more than
\* 100 full driving days, and a grid
DistanceInputs ==
    {0, 5, Tolerance, Tolerance + 1, 3 * MILE, 6 * MILE, 9 * MILE,
     50 * MILE, 700 * MILE, 5000 * MILE, 66100 * MILE}
    \cup {k * DistStep : k \in 0..MaxDistSteps}

\* Used cycle hours: the spec's scenarios (0, 65), an exhausted cycle (70 and
\* more), a grid just below 70, and a negative value (the model field is an
\* unvalidated FloatField) that leaves more than 100 days of hours
CycleInputs ==
    {0, 65 * HOUR, 75 * HOUR, -1100 * HOUR}
    \cup {CycleLimit - k * CycleStep : k \in 0..MaxCycleSteps}

-----------------------------------------------------------------------------
(* generate_eld_logs *)

Init ==
    /\ has_distance \in BOOLEAN
    /\ has_duration \in BOOLEAN
    /\ distance_miles \in DistanceInputs
    /\ cycle_hours_used \in CycleInputs
    /\ pc = "start"
    /\ logs = <<>>
    /\ remaining_hours = 0
    /\ remaining_miles = 0
    /\ current_day = 0
    /\ result = <<>>
    /\ error = "none"

\* Mutant: the test is remaining_hours < 0
NoRemainingHoursStrict(rh) == rh < 0

\* if remaining_hours <= 0
NoRemainingHours(rh) == rh <= 0

\* while remaining_miles > 0.01 and remaining_hours > 0
LoopCond(rm, rh) == rm > Tolerance /\ rh > 0

\* Mutant: the ceiling is tested with >
TooManyDaysOffByOne(cd) == cd > MaxIterations

\* if current_day >= max_iterations
TooManyDays(cd) == cd >= MaxIterations

\* Mutant: the post-loop test repeats the loop's condition
ExceedsAsLoopCond(rm, rh) == rm > Tolerance /\ rh > 0

\* if remaining_miles > 0.01, after the loop
Exceeds(rm, rh) == rm > Tolerance

Fail(msg) ==
    /\ pc' = "failed"
    /\ error' = msg
    /\ result' = <<>>

\* route_data["distance_miles"] or route_data["duration_hours"] raises
\* KeyError, re-raised as ValueError("Invalid route data: missing ...")
InvalidRoute ==
    /\ pc = "start"
    /\ ~(has_distance /\ has_duration)
    /\ Fail("invalid_route")
    /\ UNCHANGED <<inputs, logs, remaining_hours, remaining_miles, current_day>>

\* The locals are set and the cycle is found exhausted
CycleExhausted ==
    /\ pc = "start"
    /\ has_distance /\ has_duration
    /\ NoRemainingHours(CycleLimit - cycle_hours_used)
    /\ logs' = <<>>
    /\ remaining_hours' = CycleLimit - cycle_hours_used
    /\ remaining_miles' = distance_miles
    /\ current_day' = 0
    /\ Fail("no_remaining_hours")
    /\ UNCHANGED inputs

\* The locals are set and the loop is reached
EnterLoop ==
    /\ pc = "start"
    /\ has_distance /\ has_duration
    /\ ~NoRemainingHours(CycleLimit - cycle_hours_used)
    /\ logs' = <<>>
    /\ remaining_hours' = CycleLimit - cycle_hours_used
    /\ remaining_miles' = distance_miles
    /\ current_day' = 0
    /\ pc' = "loop"
    /\ UNCHANGED <<inputs, result, error>>

\* The loop guard
TooManyDaysRequired ==
    /\ pc = "loop"
    /\ LoopCond(remaining_miles, remaining_hours)
    /\ TooManyDays(current_day)
    /\ Fail("too_many_days")
    /\ UNCHANGED <<inputs, logs, remaining_hours, remaining_miles, current_day>>

\* One iteration of the loop
DayIteration ==
    /\ pc = "loop"
    /\ LoopCond(remaining_miles, remaining_hours)
    /\ ~TooManyDays(current_day)
    /\ \E up \in BOOLEAN :
         LET d == DayPlan(remaining_hours, remaining_miles, current_day, up)
             marked == IF d.dropoff THEN 0 ELSE remaining_miles
         IN  /\ logs' = IF d.activities # <<>>
                        THEN Append(logs, [day |-> current_day + 1,
                                           activities |-> d.activities])
                        ELSE logs
             /\ remaining_miles' = Max(marked - d.daily_miles, 0)
             /\ remaining_hours' = remaining_hours - d.on_duty_hours
             /\ current_day' = current_day + 1
    /\ UNCHANGED <<inputs, pc, result, error>>

\* The loop is left with miles remaining
TripExceeds ==
    /\ pc = "loop"
    /\ ~LoopCond(remaining_miles, remaining_hours)
    /\ Exceeds(remaining_miles, remaining_hours)
    /\ Fail("trip_exceeds")
    /\ UNCHANGED <<inputs, logs, remaining_hours, remaining_miles, current_day>>

\* The loop is left with the distance covered: renumber and return
ReturnLogs ==
    /\ pc = "loop"
    /\ ~LoopCond(remaining_miles, remaining_hours)
    /\ ~Exceeds(remaining_miles, remaining_hours)
    /\ logs' = Renumber(logs)
    /\ result' = Renumber(logs)
    /\ pc' = "returned"
    /\ UNCHANGED <<inputs, remaining_hours, remaining_miles, current_day, error>>

Next ==
    \/ InvalidRoute
    \/ CycleExhausted
    \/ EnterLoop
    \/ TooManyDaysRequired
    \/ DayIteration
    \/ TripExceeds
    \/ ReturnLogs

Spec == Init /\ [][Next]_vars

\* A call that has started runs to its return or its raise
FairSpec == Spec /\ WF_vars(Next)

-----------------------------------------------------------------------------
(* Measures of a list of day-logs *)

Terminated == pc \in {"returned", "failed"}

ValidRoute == has_distance /\ has_duration

\* The activities of all the day-logs, in order
RECURSIVE AllActivities(_)
AllActivities(ls) ==
    IF ls = <<>> THEN <<>>
    ELSE ls[1].activities \o AllActivities(Tail(ls))

\* The sum of the miles of the driving activities
RECURSIVE DrivingMiles(_)
DrivingMiles(acts) ==
    IF acts = <<>> THEN 0
    ELSE (IF acts[1].type = "driving" THEN acts[1].miles ELSE 0)
         + DrivingMiles(Tail(acts))

\* The sum of the durations of the activities
RECURSIVE OnDutyTime(_)
OnDutyTime(acts) ==
    IF acts = <<>> THEN 0
    ELSE (acts[1].end - acts[1].start) + OnDutyTime(Tail(acts))

OfType(acts, type) == {j \in 1..Len(acts) : acts[j].type = type}

Abs(x) == IF x < 0 THEN -x ELSE x

-----------------------------------------------------------------------------
(* C1 *)

\* C1: Distance conservation.  In every returned plan the miles of the driving
\* activities of all day-logs sum to the input distance, within 0.01 mile.
DistanceConservation ==
    pc = "returned" =>
        Abs(DrivingMiles(AllActivities(result)) - distance_miles) <= Tolerance

\* A returned plan of two days or more, the last of which drove the clamped
\* rest of the distance
DistanceConservationWitness ==
    /\ pc = "returned"
    /\ Len(result) >= 2
    /\ distance_miles = 50 * MILE
    /\ DrivingMiles(result[Len(result)].activities) = 2 * MILE

(* C2 *)

\* C2: Legal cycle limit.  A returned plan stays within the 70-hour cycle: the
\* durations of all its activities sum to at most 70 - cycle_hours_used.
CycleLimitRespected ==
    (pc = "returned" /\ ValidRoute) =>
        OnDutyTime(AllActivities(result)) <= CycleLimit - cycle_hours_used

(* C3 *)

\* C3, as stated: for any route, a used cycle of 70 hours or more fails with
\* the error of no remaining cycle hours, before the loop and with no day-log.
ExhaustedCycleAnyRoute ==
    (cycle_hours_used >= CycleLimit /\ pc # "start") =>
        /\ pc = "failed"
        /\ error = "no_remaining_hours"
        /\ logs = <<>> /\ current_day = 0 /\ result = <<>>

\* C3, amended: for any route that has both fields, a used cycle of 70 hours
\* or more fails with the error of no remaining cycle hours, before the loop
\* and with no day-log.
ExhaustedCycleValidRoute ==
    (cycle_hours_used >= CycleLimit /\ ValidRoute /\ pc # "start") =>
        /\ pc = "failed"
        /\ error = "no_remaining_hours"
        /\ logs = <<>> /\ current_day = 0 /\ result = <<>>

\* The boundary: exactly 70 hours used, a route with miles to drive, failed
ExhaustedCycleWitness ==
    /\ cycle_hours_used = CycleLimit
    /\ ValidRoute
    /\ distance_miles = 50 * MILE
    /\ pc = "failed"
    /\ error = "no_remaining_hours"

(* C4 *)

\* C4: Infeasible trip, no partial result.  A call never returns with more
\* than 0.01 mile remaining: it fails ("trip exceeds available cycle hours"
\* when the loop was left) and a failed call returns no day-log; 5000 miles
\* with 65 hours used fails.
NoPartialResult ==
    /\ pc = "returned" => remaining_miles <= Tolerance
    /\ pc = "failed" => result = <<>>
    /\ (Terminated /\ remaining_miles > Tolerance
          /\ error \notin {"no_remaining_hours", "too_many_days"})
         => (pc = "failed" /\ error = "trip_exceeds")
    /\ (Terminated /\ distance_miles = 5000 * MILE /\ cycle_hours_used = 65 * HOUR)
         => pc = "failed"

\* Scenario C: the day-log of the one day the hours allowed is built, then
\* the call fails and returns nothing
NoPartialResultWitness ==
    /\ distance_miles = 5000 * MILE
    /\ cycle_hours_used = 65 * HOUR
    /\ pc = "failed"
    /\ error = "trip_exceeds"
    /\ Len(logs) = 1
    /\ remaining_miles = 4760 * MILE
    /\ result = <<>>

(* C5 *)

\* C5: Scenario A.  50 miles with no hours used returns exactly one day-log:
\* pickup 8.0 to 9.0, driving 50 miles from 9.0, dropoff of one hour right
\* after the driving, no break and no fuel.
ScenarioAOneDay ==
    (pc = "returned" /\ distance_miles = 50 * MILE /\ cycle_hours_used = 0) =>
        /\ Len(result) = 1
        /\ LET a == result[1].activities
           IN  /\ Len(a) = 3
               /\ a[1] = Activity("pickup", 8 * HOUR, 9 * HOUR)
               /\ a[2].type = "driving"
               /\ a[2].start = 9 * HOUR
               /\ a[2].miles = 50 * MILE
               /\ a[3].type = "dropoff"
               /\ a[3].start = a[2].end
               /\ a[3].end = a[3].start + HOUR

(* C6 *)

\* C6: Day numbering.  The day fields of a returned plan are 1, 2, ..., N in
\* order and every returned day-log has at least one activity.
DayNumbering ==
    pc = "returned" =>
        \A i \in 1..Len(result) :
            /\ result[i].day = i
            /\ result[i].activities # <<>>

\* A returned plan of three days or more
DayNumberingWitness ==
    /\ pc = "returned"
    /\ Len(result) >= 3
    /\ result[3].day = 3

(* C7 *)

\* C7: Non-overlap.  In every returned day-log the first activity starts at
\* 8.0, every activity ends no earlier than it starts, and each activity
\* starts exactly at the end of the one before it.
NonOverlap ==
    pc = "returned" =>
        \A i \in 1..Len(result) :
            LET a == result[i].activities
            IN  /\ a[1].start = DayStart
                /\ \A j \in 1..Len(a) : a[j].end >= a[j].start
                /\ \A j \in 2..Len(a) : /\ a[j].start = a[j - 1].end
                                        /\ a[j].start >= a[j - 1].start

\* A returned plan with a day of pickup, driving and break and a later day
NonOverlapWitness ==
    /\ pc = "returned"
    /\ Len(result) >= 2
    /\ Len(result[1].activities) >= 3
    /\ result[1].activities[3].type = "break"

(* C8 *)

\* C8: Driving cap.  Every returned day-log has at most one driving activity
\* and no driving activity spans more than 11 hours.
DrivingCapRespected ==
    pc = "returned" =>
        \A i \in 1..Len(result) :
            LET a == result[i].activities
            IN  /\ Cardinality(OfType(a, "driving")) <= 1
                /\ \A j \in OfType(a, "driving") : a[j].end - a[j].start <= DrivingCap

\* A returned plan with a day that drove the full 11 hours and a last day
\* whose driving hours came from the clamp
DrivingCapWitness ==
    /\ pc = "returned"
    /\ distance_miles = 700 * MILE
    /\ \E j \in OfType(result[1].activities, "driving") :
          result[1].activities[j].end - result[1].activities[j].start = DrivingCap
    /\ \E j \in OfType(result[2].activities, "driving") :
          result[2].activities[j].end - result[2].activities[j].start = HoursAt60(40 * MILE)

(* C9 *)

\* C9: Bounded termination.  The loop runs at most 100 times, a call that
\* finds miles and hours remaining at day 100 fails with "too many days
\* required", and every call ends by returning or failing.
BoundedTermination ==
    /\ [](current_day <= MaxIterations)
    /\ [][(pc = "loop" /\ current_day >= MaxIterations
             /\ LoopCond(remaining_miles, remaining_hours))
           => (pc' = "failed" /\ error' = "too_many_days")]_vars
    /\ <>Terminated

\* The guard has fired at day 100
BoundedTerminationWitness ==
    /\ pc = "failed"
    /\ error = "too_many_days"
    /\ current_day = MaxIterations
    /\ Len(logs) = MaxIterations

(* C10 *)

\* C10: Loop progress.  Every iteration of the loop strictly decreases
\* remaining_hours, does not increase remaining_miles and keeps it >= 0, and
\* appends a day-log with a driving activity of more than 0 miles.
LoopProgress ==
    [][(pc = "loop" /\ current_day' = current_day + 1) =>
          /\ remaining_hours' < remaining_hours
          /\ remaining_miles' <= remaining_miles
          /\ remaining_miles' >= 0
          /\ Len(logs') = Len(logs) + 1
          /\ LET a == logs'[Len(logs')].activities
             IN  \E j \in OfType(a, "driving") : a[j].miles > 0]_vars

\* A loop that has run three times, the last time on the 0.1-hour floor
LoopProgressWitness ==
    /\ pc = "loop"
    /\ current_day >= 2
    /\ Len(logs) = current_day
    /\ \E j \in OfType(logs[current_day].activities, "driving") :
          LET a == logs[current_day].activities[j]
          IN  a.end - a.start <= MinDriving

(* C11 *)

\* C11: Complete trip shape.  Every returned plan for a distance of more than
\* 0.01 mile has exactly one pickup, the first activity of day 1, and exactly
\* one dropoff, the last activity of the last day-log.
CompleteTripShape ==
    (pc = "returned" /\ distance_miles > Tolerance) =>
        LET all == AllActivities(result)
        IN  /\ result # <<>>
            /\ OfType(all, "pickup") = {1}
            /\ OfType(all, "dropoff") = {Len(all)}

====
